---- MODULE Spec2Model ----
(***************************************************************************)
(* Model of the forex candle proxy (src/server-twelvedata.js): the TTL     *)
(* cache, the upstream client fetchCandles, the demo generator and the     *)
(* request handlers, in both provider variants (Twelve Data, lines 1-329,  *)
(* and AlphaVantage, lines 331-651).                                       *)
(*                                                                         *)
(* Units: times are seconds (Date.now() / 1000: the integers of TLC        *)
(* are 32 bits wide); prices are integers in units of 10^-7, so that the   *)
(* rounding of toFixed(5) (to a multiple of 100 units) is not the          *)
(* identity; Math.random() is n / RandDen with n in 0 .. RandDen-1 (the    *)
(* draw is < 1).                                                           *)
(***************************************************************************)
EXTENDS Integers, Sequences, FiniteSets, TLC

VARIABLES
  provider,   \* which variant of the server runs
  DEMO_MODE,  \* process.env.DEMO_MODE === 'true'
  now,        \* Date.now()
  cache,      \* the Map of the one Cache object
  reqs,       \* the timeframe requests: where each stands, what it did
  out,        \* the response the step just taken has sent, if it sent one
  lastGet,    \* the last Cache.get of a run that drives the Cache directly
  written,    \* the last Cache.set of each key in such a run
  gen         \* a call of generateDemoCandles on its own

vars == <<provider, DEMO_MODE, now, cache, reqs, out, lastGet, written, gen>>

-----------------------------------------------------------------------------
(* Bounds of the model *)

\* number of inbound timeframe requests of one run
MaxReq == 2
\* number of clock steps of one run
MaxTicks == 2
\* longest upstream time series
MaxLen == 2
\* largest count given to generateDemoCandles on its own
MaxCount == 2
\* resolution of a random draw: Math.random() = n / RandDen
RandDen == 8

-----------------------------------------------------------------------------
(* Constants of the program *)

\* const CACHE_TTL = parseInt(process.env.CACHE_TTL) || 5 * 60 * 1000,
\* in seconds
CACHE_TTL == 300
\* 86400000 ms, the length of a day in generateDemoCandles, in seconds
DAY == 86400
\* the count every demo branch passes to generateDemoCandles
DEMO_COUNT == 100

\* one step of the clock: an entry is read at age 0, at age ttl (the
\* boundary) and past it
TickStep == CACHE_TTL

None == "none"
Providers == {"TwelveData", "AlphaVantage"}
Routes == {"daily", "h1", "m15"}

\* req.query.pair as a sequence of 3-character chunks; <<>> is the absent
\* (or empty) parameter, which !pair takes for missing
NoPair == <<>>
PairNames == <<(<<"EUR", "USD">>), (<<"GBP", "USD">>)>>
Pairs == {PairNames[i] : i \in 1 .. Len(PairNames)}
PairInputs == Pairs \cup {NoPair}

\* the interval each route passes to the url helper and to fetchCandles
RouteInterval(route) ==
  CASE route = "daily" -> "daily"
    [] route = "h1"    -> "60min"
    [] route = "m15"   -> "15min"

\* the volatility each route's demo branch passes (0.01, 0.005, 0.002)
RouteVolatility(route) ==
  CASE route = "daily" -> 100000
    [] route = "h1"    -> 50000
    [] route = "m15"   -> 20000

\* basePrice 1.1500 of every demo branch
DemoBasePrice == 115 * 100000

-----------------------------------------------------------------------------
(* class Cache: a Map from key to {data, timestamp} *)

EmptyCache == <<>>

\* Cache.get returns null (a miss) or item.data
Miss == [hit |-> FALSE, data |-> <<>>]

\* a get that renews the entry it returns: a read extends the entry's life
Cache_get_touches(c, key, t) ==
  IF key \notin DOMAIN c
    THEN [ret |-> Miss, cache |-> c]
    ELSE IF t - c[key].timestamp > CACHE_TTL
           THEN [ret |-> Miss,
                 cache |-> [k \in DOMAIN c \ {key} |-> c[k]]]
           ELSE [ret |-> [hit |-> TRUE, data |-> c[key].data],
                 cache |-> [c EXCEPT ![key].timestamp = t]]

\* a get that finds nothing: every lookup is a miss
Cache_get_neverHits(c, key, t) == [ret |-> Miss, cache |-> c]

\* Cache.get with the expiry test written >= : an entry expires at age ttl
Cache_get_expiresAtTtl(c, key, t) ==
  IF key \notin DOMAIN c
    THEN [ret |-> Miss, cache |-> c]
    ELSE IF t - c[key].timestamp >= CACHE_TTL
           THEN [ret |-> Miss,
                 cache |-> [k \in DOMAIN c \ {key} |-> c[k]]]
           ELSE [ret |-> [hit |-> TRUE, data |-> c[key].data], cache |-> c]

\* Cache.get(key) at time t: the returned value and the cache left behind
Cache_get(c, key, t) ==
  IF key \notin DOMAIN c
    THEN [ret |-> Miss, cache |-> c]
    ELSE IF t - c[key].timestamp > CACHE_TTL
           THEN [ret |-> Miss,
                 cache |-> [k \in DOMAIN c \ {key} |-> c[k]]]
           ELSE [ret |-> [hit |-> TRUE, data |-> c[key].data], cache |-> c]

\* a set that writes only a key the cache does not hold yet
Cache_set_ifAbsent(c, key, data, t) ==
  c @@ (key :> [data |-> data, timestamp |-> t])

\* Cache.set(key, data) at time t
Cache_set(c, key, data, t) ==
  (key :> [data |-> data, timestamp |-> t]) @@ c

\* a clear that clears nothing
Cache_clear_keeps(c) == c

\* Cache.clear()
Cache_clear(c) == EmptyCache

\* Cache.size()
Cache_size(c) == Cardinality(DOMAIN c)

-----------------------------------------------------------------------------
(* Upstream client *)

slice03(pair) == IF Len(pair) >= 1 THEN pair[1] ELSE ""
slice36(pair) == IF Len(pair) >= 2 THEN pair[2] ELSE ""

\* twelveDataUrl(pair, interval): symbol and mapped interval of the URL
twelveDataUrl(pair, interval) ==
  <<"time_series", slice03(pair), slice36(pair),
    CASE interval = "daily" -> "1day"
      [] interval = "60min" -> "1h"
      [] interval = "15min" -> "15min"
      [] OTHER -> interval>>

\* alphaUrl(pair, interval)
alphaUrl(pair, interval) ==
  IF interval = "daily"
    THEN <<"FX_DAILY", slice03(pair), slice36(pair)>>
    ELSE <<"FX_INTRADAY", slice03(pair), slice36(pair), interval>>

\* a key made of the pair alone: the timeframes of a pair share one entry
cacheKey_pairOnly(prov, pair, interval) ==
  IF prov = "TwelveData" THEN <<pair>>
                         ELSE <<slice03(pair), slice36(pair)>>

\* the key fetchCandles looks up: `${pair}-${interval}` (Twelve Data),
\* the url (AlphaVantage)
cacheKey(prov, pair, interval) ==
  IF prov = "TwelveData" THEN <<pair, interval>>
                         ELSE alphaUrl(pair, interval)

\* the upstream series: up to MaxLen records with different time stamps,
\* in any order
TimeVals == 1 .. MaxLen
RECURSIVE SeqsUpTo(_)
SeqsUpTo(n) ==
  IF n = 0 THEN {<<>>}
  ELSE LET S == SeqsUpTo(n - 1)
       IN S \cup {Append(s, t) : s \in {x \in S : Len(x) = n - 1},
                                 t \in TimeVals}
Series ==
  {s \in SeqsUpTo(MaxLen) : \A i, j \in 1 .. Len(s) : i # j => s[i] # s[j]}

\* what the upstream call can come to:
\*   reject   fetch() rejects (network error, 10 s timeout)
\*   http     a response with !res.ok
\*   badjson  res.json() rejects (unparsable body)
\*   null     the body is the JSON value null
\*   json     a JSON object: err is the provider's error field
\*            (status = 'error' / "Error Message"), rate its rate-limit signal
\*            (code = 429 / Note), series the time-series container
\*            (values / "Time Series ..."): absent, not a container (null;
\*            for Twelve Data any value that is no array), or the list of
\*            records
Containers ==
  {[shape |-> sh, items |-> <<>>] : sh \in {"absent", "malformed"}}
  \cup {[shape |-> "list", items |-> s] : s \in Series}

NoContainer == [shape |-> "absent", items |-> <<>>]

Responses ==
  {[kind |-> k, err |-> FALSE, rate |-> FALSE, series |-> NoContainer] :
      k \in {"reject", "http", "badjson", "null"}}
  \cup [kind : {"json"}, err : BOOLEAN, rate : BOOLEAN, series : Containers]

\* no upstream call has answered
NoResponse ==
  [kind |-> None, err |-> FALSE, rate |-> FALSE, series |-> NoContainer]


\* the reversal left out: the candles in the order the upstream lists them
reverse_asListed(s) == s

\* candles.reverse()
RECURSIVE reverse(_)
reverse(s) == IF s = <<>> THEN <<>> ELSE Append(reverse(Tail(s)), Head(s))

\* data.values.map(item => ({time: item.datetime, ...}))
toCandles(series) == [i \in 1 .. Len(series) |-> [time |-> series[i]]]

\* an error swallowed: fetchCandles goes on with an empty list of candles
Thrown_goesOnEmpty(m) == [ok |-> TRUE, message |-> None, result |-> <<>>]

\* throw new Error(m)
Thrown(m) == [ok |-> FALSE, message |-> m, result |-> <<>>]
Returned(result) == [ok |-> TRUE, message |-> None, result |-> result]

\* the try block of fetchCandles after the cache miss, Twelve Data variant
tryTwelveData(resp) ==
  IF resp.kind = "reject" THEN Thrown("NETWORK_ERROR")
  ELSE IF resp.kind = "http" THEN Thrown("HTTP_STATUS")
  ELSE IF resp.kind = "badjson" THEN Thrown("INVALID_JSON")
  ELSE IF resp.kind = "null" THEN Thrown("TypeError")
  ELSE IF resp.err THEN Thrown("API_ERROR")
  ELSE IF resp.rate THEN Thrown("API_LIMIT_REACHED")
  ELSE IF resp.series.shape \in {"absent", "malformed"}
    THEN Thrown("NO_TIME_SERIES_DATA")
  ELSE Returned(reverse(toCandles(resp.series.items)))

\* the try block of fetchCandles after the cache miss, AlphaVantage variant
tryAlphaVantage(resp) ==
  IF resp.kind = "reject" THEN Thrown("NETWORK_ERROR")
  ELSE IF resp.kind = "http" THEN Thrown("HTTP_STATUS")
  ELSE IF resp.kind = "badjson" THEN Thrown("INVALID_JSON")
  ELSE IF resp.kind = "null" THEN Thrown("TypeError")
  ELSE IF resp.rate THEN Thrown("API_LIMIT_REACHED")
  ELSE IF resp.err THEN Thrown("API_ERROR")
  ELSE IF resp.series.shape = "absent" THEN Thrown("NO_TIME_SERIES_DATA")
  ELSE IF resp.series.shape = "malformed" THEN Thrown("TypeError")
  ELSE Returned(reverse(toCandles(resp.series.items)))

\* the catch block of fetchCandles: API_LIMIT_REACHED is rethrown as
\* API_LIMIT, every other error as it is
catchFetch(res) ==
  IF ~res.ok /\ res.message = "API_LIMIT_REACHED"
    THEN Thrown("API_LIMIT")
    ELSE res

\* fetchCandles from the upstream's answer on: what it returns or throws
fetchCandles(prov, resp) ==
  catchFetch(IF prov = "TwelveData" THEN tryTwelveData(resp)
                                    ELSE tryAlphaVantage(resp))

-----------------------------------------------------------------------------
(* Demo data generator *)

Max(a, b) == IF a >= b THEN a ELSE b
Min(a, b) == IF a <= b THEN a ELSE b

\* parseFloat(x.toFixed(5)): x, in units of 10^-7, rounded to the nearest
\* multiple of 10^-5, a tie away from zero
toFixed5(x) ==
  IF x >= 0 THEN ((x + 50) \div 100) * 100
            ELSE 0 - ((((0 - x) + 50) \div 100) * 100)

\* new Date(ms).toISOString().split('T')[0]: the UTC day of a time
isoDay(t) == t \div DAY

\* a pass that sets high off from open alone, not from the greater of open
\* and close
demoBody_highFromOpen(i, count, price0, volatility, nowT, r) ==
  LET change == ((2 * r[1] - RandDen) * volatility) \div (2 * RandDen)
      price  == price0 + change
      open   == price
      close  == price + ((2 * r[2] - RandDen) * volatility) \div (4 * RandDen)
      high   == open + (r[3] * volatility * 3) \div (10 * RandDen)
      low    == Min(open, close) - (r[4] * volatility * 3) \div (10 * RandDen)
  IN [candle |-> [time  |-> isoDay(nowT - (count - i) * DAY),
                  open  |-> toFixed5(open),
                  high  |-> toFixed5(high),
                  low   |-> toFixed5(low),
                  close |-> toFixed5(close)],
      price |-> close]

\* one pass of the loop of generateDemoCandles: r holds the numerators of
\* its four Math.random() draws, in the order the code draws them
demoBody(i, count, price0, volatility, nowT, r) ==
  LET change == ((2 * r[1] - RandDen) * volatility) \div (2 * RandDen)
      price  == price0 + change
      open   == price
      close  == price + ((2 * r[2] - RandDen) * volatility) \div (4 * RandDen)
      high   == Max(open, close) + (r[3] * volatility * 3) \div (10 * RandDen)
      low    == Min(open, close) - (r[4] * volatility * 3) \div (10 * RandDen)
  IN [candle |-> [time  |-> isoDay(nowT - (count - i) * DAY),
                  open  |-> toFixed5(open),
                  high  |-> toFixed5(high),
                  low   |-> toFixed5(low),
                  close |-> toFixed5(close)],
      price |-> close]

\* the passes lo .. hi-1 of the loop of generateDemoCandles, entered with
\* the running price `price`: the price and the candles pushed after them.
\* The passes run in order, each from the price the one before left; the
\* range is halved only to keep the evaluation shallow.
RECURSIVE demoLoop(_, _, _, _, _, _, _)
demoLoop(lo, hi, count, price, volatility, nowT, rnd) ==
  IF hi <= lo THEN [candles |-> <<>>, price |-> price]
  ELSE IF hi = lo + 1
    THEN LET b == demoBody(lo, count, price, volatility, nowT,
                           <<rnd[4 * lo + 1], rnd[4 * lo + 2],
                             rnd[4 * lo + 3], rnd[4 * lo + 4]>>)
         IN [candles |-> <<b.candle>>, price |-> b.price]
  ELSE LET mid    == (lo + hi) \div 2
           first  == demoLoop(lo, mid, count, price, volatility, nowT, rnd)
           second == demoLoop(mid, hi, count, first.price, volatility, nowT, rnd)
       IN [candles |-> first.candles \o second.candles, price |-> second.price]

\* the loop run from 1: one candle short
generateDemoCandles_from1(count, basePrice, volatility, nowT, rnd) ==
  demoLoop(1, count, count, basePrice, volatility, nowT, rnd).candles

\* generateDemoCandles(count, basePrice, volatility) called at time nowT,
\* rnd being the outcomes of its 4 * count random draws
generateDemoCandles(count, basePrice, volatility, nowT, rnd) ==
  demoLoop(0, count, count, basePrice, volatility, nowT, rnd).candles

\* the outcomes of the random draws the model lets a handler's call have
HandlerDraws ==
  {[j \in 1 .. 4 * DEMO_COUNT |-> (p + 3 * j) % RandDen] : p \in {0, 5}}

-----------------------------------------------------------------------------
(* Request handlers *)

ReqIds == 1 .. MaxReq

\* a timeframe request: pc is idle (not received), fetching (suspended at
\* `await fetch`) or done (answered). The rest is history kept for the
\* properties: the upstream calls, Cache.get and Cache.set calls and
\* responses of the request, the time of its Cache.set, whether the cache
\* was cleared after it, and the candles it returned.
IdleReq ==
  [pc |-> "idle", route |-> None, pair |-> NoPair, key |-> <<>>,
   calls |-> 0, gets |-> 0, sets |-> 0, sent |-> 0,
   storedAt |-> 0, wiped |-> FALSE, result |-> <<>>]

\* no response sent by the step just taken. Beside the response (status,
\* error, message, candles, cache_size, mode) the output notes, for the
\* properties: the request answered, the upstream answer the step handled
\* (up), what fetchCandles threw (thrown), the earlier calls whose stored
\* result was due at the step's cache lookup (fresh), and the keys stored
\* before a clear (had)
NoOut ==
  [op |-> None, req |-> 0, status |-> 0, error |-> None, message |-> None,
   candles |-> <<>>, thrown |-> None, up |-> NoResponse,
   fresh |-> {}, cache_size |-> 0, mode |-> None, had |-> {}]

\* res.status(400).json({error: 'MISSING_PAIR', ...})
missingPair ==
  [NoOut EXCEPT !.status = 400, !.error = "MISSING_PAIR",
                !.message = "Pair parameter is required"]

\* res.json({ candles })
okCandles(candles) == [NoOut EXCEPT !.status = 200, !.candles = candles]

\* a catch block that tests for the message fetchCandles never rethrows
catchHandler_testsReached(message) ==
  IF message = "API_LIMIT_REACHED"
    THEN [NoOut EXCEPT !.status = 429, !.error = "API_LIMIT_REACHED",
                       !.message = "API limit reached"]
    ELSE [NoOut EXCEPT !.status = 500, !.error = "SERVER_ERROR",
                       !.message = message]

\* the catch block of a timeframe handler
catchHandler(message) ==
  IF message = "API_LIMIT"
    THEN [NoOut EXCEPT !.status = 429, !.error = "API_LIMIT_REACHED",
                       !.message = "API limit reached"]
    ELSE [NoOut EXCEPT !.status = 500, !.error = "SERVER_ERROR",
                       !.message = message]

\* an empty array taken for falsy
Falsy_whenEmpty(candles) == Len(candles) = 0

\* !candles of an array: an array, empty or not, is truthy
Falsy(candles) == ~(Len(candles) >= 0)

\* the handler from `const candles = await fetchCandles(...)` on, given
\* what fetchCandles returned or threw
afterFetch(res) ==
  IF res.ok
    THEN IF Falsy(res.result) THEN catchHandler("NO_DATA")
                              ELSE okCandles(res.result)
    ELSE catchHandler(res.message)

\* request r, as q, is answered
Answered(q) == [q EXCEPT !.pc = "done", !.sent = @ + 1]

\* the response resp as the step's output, for request r on route
Sent(r, route, resp) == [resp EXCEPT !.op = route, !.req = r]

\* history kept for the properties, at the cache lookup of a request for
\* key at time t: the requests for the same key that have completed and
\* stored their result at most a TTL ago, with no clear since
FreshCalls(key, t) ==
  {p \in ReqIds : /\ reqs[p].pc = "done"
                  /\ reqs[p].sets = 1
                  /\ reqs[p].key = key
                  /\ ~reqs[p].wiped
                  /\ t - reqs[p].storedAt <= CACHE_TTL}

\* pairs are names the code never tells apart, so a run is taken to meet
\* them in the order of PairNames: a pair is requested only once the ones
\* before it have been
InOrderOfUse(pair) ==
  \A i \in 2 .. Len(PairNames) :
    pair = PairNames[i] => \E p \in ReqIds : reqs[p].pair = PairNames[i - 1]

\* the test of DEMO_MODE put before the validation of pair
handlerBranch_demoFirst(pair, demo) ==
  IF demo THEN "demo"
  ELSE IF pair = NoPair THEN "missing"
  ELSE "live"

\* the branch a timeframe handler takes: the validation of pair comes
\* first, then the test of DEMO_MODE
handlerBranch(pair, demo) ==
  IF pair = NoPair THEN "missing"
  ELSE IF demo THEN "demo"
  ELSE "live"

\* GET /api/daily, /api/h1, /api/m15, up to the response or to the
\* suspension at `await fetch(url, ...)`
Receive(r, route, pair) ==
  /\ reqs[r].pc = "idle"
  /\ IF r = 1 THEN TRUE ELSE reqs[r - 1].pc # "idle"
  /\ InOrderOfUse(pair)
  /\ LET q0 == [reqs[r] EXCEPT !.route = route, !.pair = pair]
         branch == handlerBranch(pair, DEMO_MODE)
     IN IF branch = "missing"
          THEN /\ reqs' = [reqs EXCEPT ![r] = Answered(q0)]
               /\ out' = Sent(r, route, missingPair)
               /\ UNCHANGED cache
        ELSE IF branch = "demo"
          THEN /\ \E rnd \in HandlerDraws :
                    out' = Sent(r, route, okCandles(
                             generateDemoCandles(DEMO_COUNT, DemoBasePrice,
                                                 RouteVolatility(route),
                                                 now, rnd)))
               /\ reqs' = [reqs EXCEPT ![r] = Answered(q0)]
               /\ UNCHANGED cache
        ELSE LET key == cacheKey(provider, pair, RouteInterval(route))
                 g   == Cache_get(cache, key, now)
                 q1  == [q0 EXCEPT !.key = key, !.gets = @ + 1]
             IN /\ cache' = g.cache
                /\ IF g.ret.hit
                     THEN /\ reqs' = [reqs EXCEPT ![r] =
                                 [Answered(q1) EXCEPT !.result = g.ret.data]]
                          /\ out' = [Sent(r, route,
                                          afterFetch(Returned(g.ret.data)))
                                       EXCEPT !.fresh = FreshCalls(key, now)]
                     ELSE /\ reqs' = [reqs EXCEPT ![r] =
                                 [q1 EXCEPT !.pc = "fetching", !.calls = @ + 1]]
                          /\ out' = [NoOut EXCEPT
                                       !.fresh = FreshCalls(key, now)]
  /\ UNCHANGED <<provider, DEMO_MODE, now, lastGet, written, gen>>

\* a fetchCandles that calls the upstream a second time when the first call
\* has failed
Complete_retriesOnce(r, resp) ==
  /\ reqs[r].pc = "fetching"
  /\ LET res == fetchCandles(provider, resp)
         q1  == [Answered(reqs[r]) EXCEPT
                   !.sets = IF res.ok THEN @ + 1 ELSE @,
                   !.storedAt = IF res.ok THEN now ELSE @,
                   !.result = res.result]
     IN IF ~res.ok /\ reqs[r].calls = 1
          THEN /\ cache' = cache
               /\ reqs' = [reqs EXCEPT ![r].calls = 2]
               /\ out' = [NoOut EXCEPT !.up = resp, !.thrown = res.message]
          ELSE /\ cache' = IF res.ok
                             THEN Cache_set(cache, reqs[r].key, res.result, now)
                             ELSE cache
               /\ reqs' = [reqs EXCEPT ![r] = q1]
               /\ out' = [Sent(r, reqs[r].route, afterFetch(res)) EXCEPT
                            !.up = resp, !.thrown = res.message]
  /\ UNCHANGED <<provider, DEMO_MODE, now, lastGet, written, gen>>

\* a fetchCandles that caches only a result with records in it
Complete_skipsEmpty(r, resp) ==
  /\ reqs[r].pc = "fetching"
  /\ LET res == fetchCandles(provider, resp)
         kept == res.ok /\ res.result # <<>>
         q1  == [Answered(reqs[r]) EXCEPT
                   !.sets = IF kept THEN @ + 1 ELSE @,
                   !.storedAt = IF kept THEN now ELSE @,
                   !.result = res.result]
     IN /\ cache' = IF kept
                      THEN Cache_set(cache, reqs[r].key, res.result, now)
                      ELSE cache
        /\ reqs' = [reqs EXCEPT ![r] = q1]
        /\ out' = [Sent(r, reqs[r].route, afterFetch(res)) EXCEPT
                     !.up = resp, !.thrown = res.message]
  /\ UNCHANGED <<provider, DEMO_MODE, now, lastGet, written, gen>>

\* a handler without its catch block: a failed fetchCandles is an unhandled
\* rejection and the request is never answered
Complete_noCatch(r, resp) ==
  /\ reqs[r].pc = "fetching"
  /\ LET res == fetchCandles(provider, resp)
         q1  == [Answered(reqs[r]) EXCEPT
                   !.sets = @ + 1, !.storedAt = now, !.result = res.result]
     IN IF res.ok
          THEN /\ cache' = Cache_set(cache, reqs[r].key, res.result, now)
               /\ reqs' = [reqs EXCEPT ![r] = q1]
               /\ out' = [Sent(r, reqs[r].route, afterFetch(res)) EXCEPT
                            !.up = resp, !.thrown = res.message]
          ELSE /\ cache' = cache
               /\ reqs' = [reqs EXCEPT ![r].pc = "rejected"]
               /\ out' = [NoOut EXCEPT !.up = resp, !.thrown = res.message]
  /\ UNCHANGED <<provider, DEMO_MODE, now, lastGet, written, gen>>

\* the upstream call of request r resolves or fails with resp: the rest of
\* fetchCandles and of the handler
Complete(r, resp) ==
  /\ reqs[r].pc = "fetching"
  /\ LET res == fetchCandles(provider, resp)
         q1  == [Answered(reqs[r]) EXCEPT
                   !.sets = IF res.ok THEN @ + 1 ELSE @,
                   !.storedAt = IF res.ok THEN now ELSE @,
                   !.result = res.result]
     IN /\ cache' = IF res.ok
                      THEN Cache_set(cache, reqs[r].key, res.result, now)
                      ELSE cache
        /\ reqs' = [reqs EXCEPT ![r] = q1]
        /\ out' = [Sent(r, reqs[r].route, afterFetch(res)) EXCEPT
                     !.up = resp, !.thrown = res.message]
  /\ UNCHANGED <<provider, DEMO_MODE, now, lastGet, written, gen>>

\* a clear that also aborts the fetches in flight: their requests end with
\* an error and will store nothing
ClearCache_aborts ==
  /\ cache' = Cache_clear(cache)
  /\ out' = [NoOut EXCEPT !.op = "clear", !.status = 200,
                          !.message = "Cache cleared successfully",
                          !.cache_size = Cache_size(cache'),
                          !.had = DOMAIN cache]
  /\ reqs' = [r \in ReqIds |->
               IF reqs[r].pc = "fetching"
                 THEN Answered(reqs[r])
                 ELSE [reqs[r] EXCEPT !.wiped = @ \/ reqs[r].sets = 1]]
  /\ UNCHANGED <<provider, DEMO_MODE, now, lastGet, written, gen>>

\* POST /api/cache/clear; had notes the keys stored before it
ClearCache ==
  /\ cache' = Cache_clear(cache)
  /\ out' = [NoOut EXCEPT !.op = "clear", !.status = 200,
                          !.message = "Cache cleared successfully",
                          !.cache_size = Cache_size(cache'),
                          !.had = DOMAIN cache]
  /\ reqs' = [r \in ReqIds |->
               [reqs[r] EXCEPT !.wiped = @ \/ reqs[r].sets = 1]]
  /\ UNCHANGED <<provider, DEMO_MODE, now, lastGet, written, gen>>

\* GET /api/health
Health ==
  /\ out' = [NoOut EXCEPT !.op = "health", !.status = 200,
                          !.mode = IF DEMO_MODE THEN "DEMO" ELSE "LIVE",
                          !.cache_size = Cache_size(cache)]
  /\ UNCHANGED <<provider, DEMO_MODE, now, cache, reqs, lastGet, written, gen>>

\* a clock step with a background sweep: entries older than the TTL are
\* removed as time passes
Tick_sweeps ==
  /\ now < MaxTicks * TickStep
  /\ now' = now + TickStep
  /\ out' = NoOut
  /\ cache' = [k \in {x \in DOMAIN cache :
                        now' - cache[x].timestamp <= CACHE_TTL} |-> cache[k]]
  /\ UNCHANGED <<provider, DEMO_MODE, reqs, lastGet, written, gen>>

\* Date.now() advances
Tick ==
  /\ now < MaxTicks * TickStep
  /\ now' = now + TickStep
  /\ out' = NoOut
  /\ UNCHANGED <<provider, DEMO_MODE, cache, reqs, lastGet, written, gen>>

\* no Cache.get observed yet; no generateDemoCandles call on its own
NoGet ==
  [valid |-> FALSE, key |-> <<>>, at |-> 0, ret |-> Miss, had |-> FALSE,
   setData |-> <<>>, setAt |-> 0, sizeBefore |-> 0, sizeAfter |-> 0,
   unchanged |-> TRUE]
NoGen ==
  [pc |-> "none", count |-> 0, basePrice |-> 0, volatility |-> 0, at |-> 0,
   rnd |-> <<>>, candles |-> <<>>]

Init ==
  /\ provider \in Providers
  /\ DEMO_MODE \in BOOLEAN
  /\ now = 0
  /\ cache = EmptyCache
  /\ reqs = [r \in ReqIds |-> IdleReq]
  /\ out = NoOut
  /\ lastGet = NoGet
  /\ written = <<>>
  /\ gen = NoGen

Next ==
  \/ \E r \in ReqIds, route \in Routes, pair \in PairInputs :
       Receive(r, route, pair)
  \/ \E r \in ReqIds, resp \in Responses : Complete(r, resp)
  \/ ClearCache
  \/ Health
  \/ Tick

Spec == Init /\ [][Next]_vars

-----------------------------------------------------------------------------
(* The Cache object driven directly: any set, get and clear at any time *)

CacheKeys == {cacheKey("TwelveData", PairNames[1], i) : i \in {"daily", "60min"}}
CacheVals == {toCandles(s) : s \in {x \in Series : Len(x) <= 1}}

\* cache.set(k, v); written notes the value and the time of the call
CacheSet(k, v) ==
  /\ cache' = Cache_set(cache, k, v, now)
  /\ written' = (k :> [data |-> v, at |-> now]) @@ written
  /\ UNCHANGED <<provider, DEMO_MODE, now, reqs, out, lastGet, gen>>

\* cache.get(k); lastGet notes what it returned, what it did to the cache
\* and the set of k it follows, written forgets a set once a get has found
\* it older than the TTL
CacheGet(k) ==
  LET g == Cache_get(cache, k, now)
      had == k \in DOMAIN written
  IN /\ cache' = g.cache
     /\ lastGet' = [valid |-> TRUE, key |-> k, at |-> now, ret |-> g.ret,
                    had |-> had,
                    setData |-> IF had THEN written[k].data ELSE <<>>,
                    setAt |-> IF had THEN written[k].at ELSE 0,
                    sizeBefore |-> Cache_size(cache),
                    sizeAfter |-> Cache_size(g.cache),
                    unchanged |-> (g.cache = cache)]
     /\ written' = IF had /\ now - written[k].at > CACHE_TTL
                     THEN [x \in DOMAIN written \ {k} |-> written[x]]
                     ELSE written
     /\ UNCHANGED <<provider, DEMO_MODE, now, reqs, out, gen>>

\* cache.clear()
CacheClear ==
  /\ cache' = Cache_clear(cache)
  /\ written' = <<>>
  /\ UNCHANGED <<provider, DEMO_MODE, now, reqs, out, lastGet, gen>>

CacheInit == Init /\ provider = "TwelveData" /\ ~DEMO_MODE

CacheNext ==
  \/ \E k \in CacheKeys, v \in CacheVals : CacheSet(k, v)
  \/ \E k \in CacheKeys : CacheGet(k)
  \/ CacheClear
  \/ Tick

CacheSpec == CacheInit /\ [][CacheNext]_vars

-----------------------------------------------------------------------------
(* generateDemoCandles called on its own, on any small input *)

\* the numerators of the two draws that move the price: the least, a
\* middle and the greatest
DrawVals == {0, 3, RandDen - 1}

\* the numerators of the two draws that set high and low off: the least
\* (no offset at all) and the greatest
OffsetDrawVals == {0, RandDen - 1}

\* the four draws of one pass of the loop
DrawQuads ==
  {<<a, b, c, d>> : a \in DrawVals, b \in DrawVals,
                    c \in OffsetDrawVals, d \in OffsetDrawVals}

\* the draws of n passes
RECURSIVE DrawSeqs(_)
DrawSeqs(n) ==
  IF n = 0 THEN {<<>>}
  ELSE {s \o q : s \in DrawSeqs(n - 1), q \in DrawQuads}

GenInputs ==
  UNION {[pc : {"call"}, count : {c}, basePrice : {0, DemoBasePrice},
          volatility : {0, RouteVolatility("h1"), RouteVolatility("daily")},
          at : {0, DAY - 1}, rnd : DrawSeqs(c), candles : {<<>>}] :
         c \in 1 .. MaxCount}

Generate ==
  /\ gen.pc = "call"
  /\ gen' = [gen EXCEPT !.pc = "done",
               !.candles = generateDemoCandles(gen.count, gen.basePrice,
                                               gen.volatility, gen.at, gen.rnd)]
  /\ UNCHANGED <<provider, DEMO_MODE, now, cache, reqs, out, lastGet, written>>

GenInit ==
  /\ provider = "TwelveData"
  /\ DEMO_MODE = TRUE
  /\ now = 0
  /\ cache = EmptyCache
  /\ reqs = [r \in ReqIds |-> IdleReq]
  /\ out = NoOut
  /\ lastGet = NoGet
  /\ written = <<>>
  /\ gen \in GenInputs

GenNext == Generate

GenSpec == GenInit /\ [][GenNext]_vars

-----------------------------------------------------------------------------
(* The server with every upstream call coming to an end: fetch() resolves, or
   rejects at its 10 s timeout at the latest. The answers are one of each
   class, with at most one record. *)

LiveResponses ==
  {x \in Responses : x.series.items \in {<<>>, <<1>>}}

LiveNext ==
  \/ \E r \in ReqIds, route \in Routes, pair \in PairInputs :
       Receive(r, route, pair)
  \/ \E r \in ReqIds, resp \in LiveResponses : Complete(r, resp)
  \/ ClearCache
  \/ Health
  \/ Tick

LiveSpec ==
  /\ Init
  /\ [][LiveNext]_vars
  /\ \A r \in ReqIds : WF_vars(\E resp \in LiveResponses : Complete(r, resp))

-----------------------------------------------------------------------------
(* The server receiving, besides the 6-letter codes, a pair parameter with
   more than six characters: the handlers test only that pair is there, and
   slice(0, 3) and slice(3, 6) take its first six characters. *)

\* pair=EURUSDX
LongPair == <<"EUR", "USD", "X">>

AnyPairInputs == PairInputs \cup {LongPair}

PairNext ==
  \/ \E r \in ReqIds, route \in Routes, pair \in AnyPairInputs :
       Receive(r, route, pair)
  \/ \E r \in ReqIds, resp \in LiveResponses : Complete(r, resp)
  \/ ClearCache
  \/ Health
  \/ Tick

PairSpec == Init /\ [][PairNext]_vars

-----------------------------------------------------------------------------
(* Properties *)

\* C1: a get(k) that follows a set(k, v) made at time t, with no other set
\* of k and no clear in between, returns v and leaves the cache as it was
\* when now - t <= ttl (the boundary included); the first get(k) with
\* now - t > ttl returns a miss and removes the entry, so that size() is
\* one less after it than before.
CacheGetContract ==
  (lastGet.valid /\ lastGet.had) =>
    IF lastGet.at - lastGet.setAt <= CACHE_TTL
      THEN /\ lastGet.ret = [hit |-> TRUE, data |-> lastGet.setData]
           /\ lastGet.unchanged
      ELSE /\ lastGet.ret = Miss
           /\ lastGet.sizeAfter = lastGet.sizeBefore - 1

\* a get has found an entry older than the TTL, beside a second entry
StaleGetSeen ==
  /\ lastGet.valid /\ lastGet.had
  /\ lastGet.at - lastGet.setAt > CACHE_TTL
  /\ lastGet.sizeBefore = 2

\* the step just taken has answered a timeframe request
Replied == out.op \in Routes

\* ... from the cache: fetchCandles returned at its lookup
RepliedFromCache ==
  /\ Replied
  /\ reqs[out.req].gets = 1
  /\ reqs[out.req].calls = 0

\* ... after its upstream call came back
RepliedAfterCall == Replied /\ out.up.kind # None

IsAscending(c) == \A i \in 1 .. Len(c) - 1 : c[i].time <= c[i + 1].time

\* C2 as stated: two calls of fetchCandles for the same key within one TTL
\* window (here: both over before the first TTL has passed, and no clear)
\* perform exactly one upstream call between them.
TwoCallsOneFetch ==
  \A p, r \in ReqIds :
    ( /\ p < r
      /\ now <= CACHE_TTL
      /\ reqs[p].pc = "done" /\ reqs[r].pc = "done"
      /\ reqs[p].gets = 1 /\ reqs[r].gets = 1
      /\ reqs[p].key = reqs[r].key
      /\ ~reqs[p].wiped /\ ~reqs[r].wiped )
    => reqs[p].calls + reqs[r].calls = 1

\* C2, amended: a call of fetchCandles whose cache lookup comes after an
\* earlier call for the same key has completed and stored its result, at
\* most a TTL after that store and with no clear in between, is a cache
\* hit: it issues no upstream call and returns a stored result, so that it
\* and the call that stored perform exactly one upstream call.
SecondCallHits ==
  out.fresh # {} =>
    /\ RepliedFromCache
    /\ out.status = 200
    /\ \E p \in out.fresh : out.candles = reqs[p].result
    /\ \A p \in out.fresh : reqs[p].calls + reqs[out.req].calls = 1

\* a second call has hit the entry of the first at the very end of its TTL
HitAtTtlSeen ==
  /\ RepliedFromCache
  /\ \E p \in out.fresh : now - reqs[p].storedAt = CACHE_TTL

\* C3: a 2xx upstream answer that carries the provider's rate-limit signal
\* (code = 429 / Note), whatever else it carries, makes fetchCandles fail
\* with the rate-limit error and the handler answer 429 API_LIMIT_REACHED.
RateLimitAnswered429 ==
  (RepliedAfterCall /\ out.up.kind = "json" /\ out.up.rate) =>
    /\ out.thrown = "API_LIMIT"
    /\ out.status = 429
    /\ out.error = "API_LIMIT_REACHED"

\* C4 as stated: the sequence a successful fetchCandles call returns is
\* sorted ascending by time, whatever the order of the upstream's records.
ReturnedAscending ==
  (RepliedAfterCall /\ out.status = 200) => IsAscending(out.candles)

\* C4, amended: the sequence a successful fetchCandles call returns, and
\* stores in the cache, is the upstream's records in the reverse of the
\* order the upstream lists them; it is ascending by time when the upstream
\* lists its records newest first.
ReturnedReversed ==
  (RepliedAfterCall /\ out.status = 200) =>
    LET listed == out.up.series.items
        n == Len(listed)
    IN /\ Len(out.candles) = n
       /\ \A i \in 1 .. n : out.candles[i].time = listed[n + 1 - i]
       /\ cache[reqs[out.req].key].data = out.candles
       /\ (\A i \in 1 .. n - 1 : listed[i] >= listed[i + 1])
            => IsAscending(out.candles)

\* a fetch of two records listed newest first has been answered
NewestFirstSeen ==
  /\ RepliedAfterCall /\ out.status = 200
  /\ out.up.series.items = <<2, 1>>

\* C5: after POST /api/cache/clear the response reports cache_size 0,
\* size() is 0 and a get of any key stored before the clear is a miss; and
\* whenever later a get is a hit, the entry was set after the last clear.
ClearEmpties ==
  /\ out.op = "clear" =>
       /\ out.cache_size = 0
       /\ Cache_size(cache) = 0
       /\ \A k \in out.had : ~Cache_get(cache, k, now).ret.hit
  /\ RepliedFromCache => out.fresh # {}

\* a clear has removed two entries
ClearOfTwoSeen == out.op = "clear" /\ Cardinality(out.had) = 2

\* C6: in demo mode every timeframe request with a pair is answered 200
\* with exactly 100 generated candles, no upstream call is ever issued and
\* the cache is never read or written: it stays empty.
DemoBypasses ==
  DEMO_MODE =>
    /\ cache = EmptyCache
    /\ \A r \in ReqIds :
         /\ reqs[r].pc # "fetching"
         /\ reqs[r].calls = 0 /\ reqs[r].gets = 0 /\ reqs[r].sets = 0
    /\ (Replied /\ reqs[out.req].pair # NoPair) =>
         /\ out.status = 200
         /\ Len(out.candles) = DEMO_COUNT

\* the last of the requests of a demo run has been answered with candles
DemoAllAnswered ==
  /\ DEMO_MODE
  /\ \A r \in ReqIds : reqs[r].pc = "done" /\ reqs[r].pair # NoPair
  /\ Replied /\ out.status = 200

\* C7: a timeframe request without pair is answered 400 MISSING_PAIR, in
\* demo and in live mode, having issued no upstream call and no cache
\* operation.
MissingPairRejected ==
  (Replied /\ reqs[out.req].pair = NoPair) =>
    /\ out.status = 400
    /\ out.error = "MISSING_PAIR"
    /\ out.candles = <<>>
    /\ reqs[out.req].calls = 0
    /\ reqs[out.req].gets = 0
    /\ reqs[out.req].sets = 0

\* a request without pair has been answered in demo mode
DemoMissingPairSeen ==
  DEMO_MODE /\ Replied /\ reqs[out.req].pair = NoPair /\ out.status = 400

\* C8: the status of a timeframe response is 400 exactly when pair is
\* missing, 429 exactly when fetchCandles failed with the rate-limit error,
\* 500 with SERVER_ERROR and the error's message for every other failure
\* (non-2xx status, network error, unparsable body, provider error field,
\* missing time-series container: NO_TIME_SERIES_DATA), 200 with the
\* candles (in live mode: those fetchCandles returned) otherwise.
StatusMapping ==
  Replied =>
    LET q == reqs[out.req]
        failed == out.thrown # None
    IN /\ out.status \in {200, 400, 429, 500}
       /\ out.status = 400 <=> q.pair = NoPair
       /\ out.status = 429 <=> out.thrown = "API_LIMIT"
       /\ out.status = 429 => out.error = "API_LIMIT_REACHED"
       /\ out.status = 500 <=> (failed /\ out.thrown # "API_LIMIT")
       /\ out.status = 500 =>
            out.error = "SERVER_ERROR" /\ out.message = out.thrown
       /\ out.status = 200 <=> (q.pair # NoPair /\ ~failed)
       /\ (out.status = 200 /\ ~DEMO_MODE) => out.candles = q.result
       /\ out.up.kind \in {"reject", "http", "badjson", "null"}
            => out.status = 500
       /\ (out.up.kind = "json" /\ out.up.err /\ ~out.up.rate)
            => out.status = 500
       /\ ( /\ out.up.kind = "json" /\ ~out.up.err /\ ~out.up.rate
            /\ out.up.series.shape = "absent" )
            => out.status = 500 /\ out.message = "NO_TIME_SERIES_DATA"

\* a response without time series has been answered 500
NoSeriesSeen ==
  /\ Replied /\ out.status = 500
  /\ out.message = "NO_TIME_SERIES_DATA"

\* C10: generateDemoCandles(count, basePrice, volatility), count >= 1 and
\* volatility >= 0, returns exactly count candles whatever the draws, and
\* every one of them has low <= open <= high and low <= close <= high in
\* its fields as rounded to 5 decimals.
DemoCandlesBounded ==
  gen.pc = "done" =>
    /\ Len(gen.candles) = gen.count
    /\ \A i \in 1 .. Len(gen.candles) :
         LET c == gen.candles[i]
         IN /\ c.low <= c.open /\ c.open <= c.high
            /\ c.low <= c.close /\ c.close <= c.high

\* two candles have been generated, the last closing above its open
RisingCandleSeen ==
  /\ gen.pc = "done" /\ gen.count = 2 /\ gen.volatility > 0
  /\ gen.candles[2].close > gen.candles[2].open
  /\ gen.candles[2].high > gen.candles[2].close

\* C9: every request that has come in is answered exactly once, given that
\* the upstream call it may have issued comes to an end: at no time has a
\* request been answered twice, or been answered and not finished, and a
\* request waiting for its call is answered in the end, whatever became of
\* the calls of the others; and the next request can always come in,
\* whatever became of the earlier ones.
EveryRequestAnsweredOnce ==
  /\ [](\A r \in ReqIds :
          reqs[r].sent = IF reqs[r].pc = "done" THEN 1 ELSE 0)
  /\ \A r \in ReqIds :
       (reqs[r].pc # "idle") ~> (reqs[r].pc = "done" /\ reqs[r].sent = 1)
  /\ [](\A r \in ReqIds :
          (reqs[r].pc = "idle" /\ (r = 1 \/ reqs[r - 1].pc # "idle")) =>
            ENABLED (\E route \in Routes, pair \in PairInputs :
                       Receive(r, route, pair)))

\* the second request is answered 200 after its upstream call, the fetch of
\* the first having failed
AnsweredAfterFailureSeen ==
  /\ reqs[1].pc = "done" /\ reqs[1].calls = 1 /\ reqs[1].sets = 0
  /\ RepliedAfterCall /\ out.req = 2 /\ out.status = 200

\* C11: the time stamps of the series generateDemoCandles returns are
\* consecutive calendar days, oldest first, and the day of the last candle
\* is the day of the call.
DemoDaysEndToday ==
  gen.pc = "done" =>
    LET n == Len(gen.candles)
    IN /\ \A i \in 1 .. n - 1 :
            gen.candles[i + 1].time = gen.candles[i].time + 1
       /\ n >= 1 => gen.candles[n].time = isoDay(gen.at)

\* the step is the cache lookup of request r: fetchCandles up to
\* `if (cached) return cached`
LooksUp(r) == reqs'[r].gets = reqs[r].gets + 1

\* the step is the cache.set of request r, at the end of a successful fetch
Stores(r) == reqs'[r].sets = reqs[r].sets + 1

\* C12: a cache hit in fetchCandles has no side effect. The lookup of a key
\* whose entry is at most ttl old returns the entry's data, issues no
\* upstream call and leaves the whole cache, the entry's data and
\* timestamp included, as it was; an entry's data and timestamp change only
\* by a set of its key; and a lookup more than ttl after the entry's
\* timestamp is a miss. So an entry expires ttl after the set that wrote
\* it, however often it is read in between.
HitHasNoEffect ==
  [][ /\ \A r \in ReqIds :
           LooksUp(r) =>
             LET k == reqs'[r].key
             IN IF k \in DOMAIN cache /\ now - cache[k].timestamp <= CACHE_TTL
                  THEN /\ cache' = cache
                       /\ reqs'[r].calls = 0
                       /\ reqs'[r].pc = "done"
                       /\ out'.status = 200
                       /\ out'.candles = cache[k].data
                  ELSE /\ reqs'[r].pc = "fetching"
                       /\ reqs'[r].calls = 1
                       /\ k \notin DOMAIN cache'
      /\ \A k \in DOMAIN cache \cap DOMAIN cache' :
           cache'[k] # cache[k] =>
             \E r \in ReqIds : Stores(r) /\ reqs[r].key = k
    ]_vars

\* a request has been served an entry of two candles at the very end of
\* the entry's life, and the entry still carries the time of its set
HitLeftTimestampSeen ==
  /\ RepliedFromCache
  /\ Len(out.candles) = 2
  /\ cache[reqs[out.req].key].timestamp = now - CACHE_TTL

\* C13: when fetchCandles succeeds after a miss it has stored the sequence
\* it returns under the key it looked up, stamped with the time of the
\* completion, so that a get of that key right after the return yields
\* exactly the returned sequence.
WriteThrough ==
  (RepliedAfterCall /\ out.status = 200) =>
    LET q == reqs[out.req]
    IN /\ q.key = cacheKey(provider, q.pair, RouteInterval(q.route))
       /\ q.key \in DOMAIN cache
       /\ cache[q.key] = [data |-> out.candles, timestamp |-> now]
       /\ Cache_get(cache, q.key, now).ret =
            [hit |-> TRUE, data |-> out.candles]
       /\ q.sets = 1 /\ q.storedAt = now

\* a fetch that came back with no records has been answered and stored
EmptySeriesStoredSeen ==
  /\ RepliedAfterCall /\ out.status = 200
  /\ out.candles = <<>>
  /\ now > 0

\* the fetch of request r has just succeeded, that of p, for the same key,
\* succeeded before it, and the two overlapped: the entry p stored was
\* neither cleared nor, the first TTL not being over, expired, so that r,
\* had it looked up after p's set, would have hit
CompletedLastOfTwo(p, r) ==
  /\ RepliedAfterCall /\ out.status = 200 /\ out.req = r
  /\ p # r
  /\ reqs[p].pc = "done" /\ reqs[p].sets = 1
  /\ reqs[p].key = reqs[r].key
  /\ ~reqs[p].wiped
  /\ now <= CACHE_TTL

\* C14: two requests for the same uncached key whose handling overlaps both
\* miss and both issue an upstream call; when both have succeeded the cache
\* holds one entry for the key, with the result of the fetch that
\* completed last, whichever request was started first.
LastCompletedWins ==
  \A p, r \in ReqIds :
    CompletedLastOfTwo(p, r) =>
      /\ reqs[p].gets = 1 /\ reqs[p].calls = 1
      /\ reqs[r].gets = 1 /\ reqs[r].calls = 1
      /\ reqs[r].key \in DOMAIN cache
      /\ cache[reqs[r].key] = [data |-> reqs[r].result, timestamp |-> now]

\* the request started first has completed last, with another result than
\* the second's, and the cache holds the first's
FirstStartedWinsSeen ==
  /\ CompletedLastOfTwo(2, 1)
  /\ reqs[1].result # reqs[2].result
  /\ cache[reqs[1].key].data = reqs[1].result

\* the entry of key k is there and at most ttl old
FreshEntry(k) == k \in DOMAIN cache /\ now - cache[k].timestamp <= CACHE_TTL

\* C15: a request issues at most one upstream call over its whole handling:
\* none when pair is missing, in demo mode or on a cache hit, exactly one
\* on a cache miss, and none is added when that call comes back, with a
\* success or with a failure.
NoRetries ==
  /\ [](\A r \in ReqIds :
          /\ reqs[r].calls \in {0, 1}
          /\ (reqs[r].pair = NoPair \/ DEMO_MODE) =>
               reqs[r].calls = 0 /\ reqs[r].gets = 0
          /\ reqs[r].pc = "fetching" => reqs[r].calls = 1)
  /\ [][\A r \in ReqIds :
          /\ reqs'[r].calls # reqs[r].calls =>
               /\ LooksUp(r)
               /\ ~FreshEntry(reqs'[r].key)
               /\ reqs[r].calls = 0 /\ reqs'[r].calls = 1
          /\ LooksUp(r) =>
               reqs'[r].calls = IF FreshEntry(reqs'[r].key) THEN 0 ELSE 1
          /\ (reqs[r].pc = "fetching" /\ reqs'[r].pc # "fetching") =>
               reqs'[r].pc = "done" /\ reqs'[r].calls = 1
       ]_vars

\* a request whose one upstream call hit the rate limit has been answered
FailedAfterOneCallSeen ==
  /\ RepliedAfterCall /\ out.status = 429
  /\ reqs[out.req].calls = 1

\* C16: expiry is lazy only. An entry leaves the cache only by a get of its
\* own key at a time when it is more than ttl old, or by clear(); the
\* passing of time, the lookup of another or of an absent key, size() and
\* GET /api/health remove nothing, so that the cache_size the health
\* endpoint reports counts the stale entries not read since they expired.
ExpiryIsLazy ==
  [][ /\ \A k \in DOMAIN cache \ DOMAIN cache' :
           \/ out'.op = "clear"
           \/ /\ now - cache[k].timestamp > CACHE_TTL
              /\ \E r \in ReqIds : LooksUp(r) /\ reqs'[r].key = k
      /\ now' # now => cache' = cache
      /\ out'.op = "health" =>
           /\ cache' = cache
           /\ out'.cache_size = Cardinality(DOMAIN cache)
    ]_vars

\* the health endpoint has reported two entries, both of them stale
StaleCountedSeen ==
  /\ out.op = "health"
  /\ out.cache_size = 2
  /\ \A k \in DOMAIN cache : now - cache[k].timestamp > CACHE_TTL

\* request p has fetched and stored the sequence the step has served
\* request r from the cache
WroteServed(p, r) ==
  /\ p # r
  /\ reqs[p].sets = 1
  /\ reqs[p].result = out.candles

\* C17 as stated: a live request is served from the cache only a sequence
\* that an earlier fetch wrote for the same pair and the same timeframe.
ServedOwnPairOnly ==
  RepliedFromCache =>
    \E p \in ReqIds :
      /\ WroteServed(p, out.req)
      /\ reqs[p].pair = reqs[out.req].pair
      /\ reqs[p].route = reqs[out.req].route

\* C17, amended: a live request is served from the cache only a sequence
\* that an earlier fetch wrote under the same cache key, and two requests
\* have the same key only if they are for the same timeframe and for pairs
\* with the same first six characters (3-letter base and quote); under the
\* Twelve Data variant only if they are for the very same pair. Pairs that
\* agree in their first six characters share one key under the
\* AlphaVantage variant, whose key is the url.
ServedOwnKeyOnly ==
  /\ RepliedFromCache =>
       \E p \in ReqIds :
         /\ WroteServed(p, out.req)
         /\ reqs[p].key = reqs[out.req].key
  /\ \A p1 \in AnyPairInputs \ {NoPair}, p2 \in AnyPairInputs \ {NoPair},
        r1 \in Routes, r2 \in Routes :
       cacheKey(provider, p1, RouteInterval(r1))
         = cacheKey(provider, p2, RouteInterval(r2)) =>
           /\ r1 = r2
           /\ slice03(p1) = slice03(p2) /\ slice36(p1) = slice36(p2)
           /\ provider = "TwelveData" => p1 = p2

\* a request for EURUSDX has been served the entry a request for EURUSD
\* wrote
SharedEntrySeen ==
  /\ RepliedFromCache
  /\ reqs[out.req].pair = LongPair
  /\ \E p \in ReqIds : WroteServed(p, out.req) /\ reqs[p].pair = PairNames[1]

\* the upstream's answer u makes fetchCandles end in an error: the fetch
\* rejected, a non-2xx status, an unparsable or null body, the provider's
\* error field or rate-limit signal, no time-series container
UpFailed(u) ==
  \/ u.kind \in {"reject", "http", "badjson", "null"}
  \/ /\ u.kind = "json"
     /\ u.err \/ u.rate \/ u.series.shape # "list"

\* the step ends the upstream call of request r
Completes(r) == reqs[r].pc = "fetching" /\ reqs'[r].pc = "done"

\* C18: a fetchCandles call that ends in an error never calls Cache.set.
\* The step that ends its upstream call leaves the cache as it is, and the
\* only change its lookup can have made is the removal of the stale entry
\* of its own key: no entry is created or overwritten, and the entries of
\* the other keys are untouched.
FailureStoresNothing ==
  /\ [](\A r \in ReqIds :
          (reqs[r].pc = "done" /\ reqs[r].calls = 1 /\ reqs[r].sets = 0) =>
            reqs[r].result = <<>>)
  /\ [][\A r \in ReqIds :
          /\ (Completes(r) /\ UpFailed(out'.up)) =>
               /\ cache' = cache
               /\ reqs'[r].sets = 0
               /\ out'.status \in {429, 500}
          /\ LooksUp(r) =>
               /\ \A k \in DOMAIN cache' :
                    k \in DOMAIN cache /\ cache'[k] = cache[k]
               /\ DOMAIN cache \ DOMAIN cache' \subseteq {reqs'[r].key}
       ]_vars

\* a fetch has failed on an unparsable body while the cache held the
\* result of another fetch of the same key, and holds it still
FailedBesideEntrySeen ==
  /\ RepliedAfterCall /\ out.up.kind = "badjson"
  /\ reqs[out.req].key \in DOMAIN cache
  /\ \E p \in ReqIds :
       /\ p # out.req /\ reqs[p].sets = 1
       /\ cache[reqs[out.req].key].data = reqs[p].result
       /\ Len(reqs[p].result) = 2

\* C19: clear() does not cancel the fetches in flight. A request waiting
\* for its upstream call is left as it is by POST /api/cache/clear, and
\* when its call succeeds right after the clear it writes its result: the
\* cache then holds one entry, of data requested before the clear, no
\* request having been started since.
ClearSparesInFlight ==
  [][ /\ out'.op = "clear" =>
           \A r \in ReqIds : reqs[r].pc = "fetching" => reqs'[r] = reqs[r]
      /\ \A r \in ReqIds :
           (out.op = "clear" /\ Completes(r) /\ ~UpFailed(out'.up)) =>
             /\ cache' = (reqs[r].key :>
                            [data |-> out'.candles, timestamp |-> now])
             /\ Cache_size(cache') = 1
    ]_vars

\* the first request, in flight while the result of the second was stored
\* and then cleared, has stored its own: the cache holds an entry though
\* both requests were started before the clear
StoredAfterClearSeen ==
  /\ reqs[2].sets = 1 /\ reqs[2].wiped
  /\ RepliedAfterCall /\ out.req = 1 /\ out.status = 200
  /\ Len(out.candles) = 2
  /\ Cache_size(cache) = 1
  /\ cache[reqs[1].key].data = out.candles

\* C20: fetchCandles never returns a falsy value. A call either returns an
\* array of candles, from the cache or freshly normalized and possibly
\* empty, which the handler answers with 200, or it throws; the handlers'
\* NO_DATA branch is never taken and no response carries the message
\* "NO_DATA".
NeverNoData ==
  /\ out.message # "NO_DATA" /\ out.thrown # "NO_DATA"
  /\ (Replied /\ reqs[out.req].gets = 1) =>
       IF out.thrown = None
         THEN /\ out.status = 200
              /\ out.candles = reqs[out.req].result
              /\ Len(out.candles) \in 0 .. MaxLen
         ELSE /\ out.status \in {429, 500}
              /\ out.candles = <<>>

\* an empty array has come back from the cache and has been answered 200
EmptyHitSeen ==
  /\ RepliedFromCache
  /\ out.status = 200
  /\ out.candles = <<>>

====
